---- MODULE Spec2Model ----
(***************************************************************************)
(* Model of icd/intel/img.c: creation, destruction and queries of an       *)
(* intel_img, the packing of its primary / aux / separate-stencil regions  *)
(* into one buffer object, and the fast-clear setters.                     *)
(*                                                                         *)
(* Byte quantities reach 2^31 and beyond, which TLC's integers cannot      *)
(* hold, so every C unsigned / size_t value is a little-endian sequence of *)
(* base-4096 digits, and the C operators on them (+, *, /, >, & ~4095,     *)
(* truncation to the type's width) are computed digit by digit.            *)
(***************************************************************************)
EXTENDS Integers, Sequences, FiniteSets, TLC

----------------------------------------------------------------------------
(* Wide unsigned arithmetic                                                *)

Radix == 2^12

ZeroN == <<0, 0, 0, 0, 0, 0>>

DigitIdx == 1..Len(ZeroN)

\* the value hi * 4096 + lo, for 0 <= lo < 4096 and 0 <= hi < 4096^2
U(hi, lo) == <<lo, hi % Radix, hi \div Radix, 0, 0, 0>>

RECURSIVE AddDigits(_, _, _, _)
AddDigits(a, b, i, carry) ==
    IF i > Len(a) THEN <<>>
    ELSE LET s == a[i] + b[i] + carry
         IN  <<s % Radix>> \o AddDigits(a, b, i + 1, s \div Radix)

AddN(a, b) == AddDigits(a, b, 1, 0)

\* a - b for a >= b
RECURSIVE SubDigits(_, _, _, _)
SubDigits(a, b, i, borrow) ==
    IF i > Len(a) THEN <<>>
    ELSE LET s == a[i] - b[i] - borrow
         IN  IF s < 0 THEN <<s + Radix>> \o SubDigits(a, b, i + 1, 1)
                      ELSE <<s>> \o SubDigits(a, b, i + 1, 0)

SubN(a, b) == SubDigits(a, b, 1, 0)

RECURSIVE Conv(_, _, _, _)
Conv(a, b, k, i) ==
    IF i > k THEN 0 ELSE a[i] * b[k + 1 - i] + Conv(a, b, k, i + 1)

RECURSIVE MulDigits(_, _, _, _)
MulDigits(a, b, k, carry) ==
    IF k > Len(a) THEN <<>>
    ELSE LET s == Conv(a, b, k, 1) + carry
         IN  <<s % Radix>> \o MulDigits(a, b, k + 1, s \div Radix)

MulN(a, b) == MulDigits(a, b, 1, 0)

RECURSIVE LtFrom(_, _, _)
LtFrom(a, b, i) ==
    IF i = 0 THEN FALSE
    ELSE IF a[i] # b[i] THEN a[i] < b[i]
    ELSE LtFrom(a, b, i - 1)

LtN(a, b) == LtFrom(a, b, Len(a))
LeqN(a, b) == ~LtN(b, a)

\* the low `bits` bits of a: what a C unsigned type of that width keeps
TruncN(a, bits) ==
    [i \in DigitIdx |->
        IF 12 * i <= bits THEN a[i]
        ELSE IF 12 * (i - 1) >= bits THEN 0
        ELSE a[i] % 2^(bits - 12 * (i - 1))]

BitN(a, e) == (a[(e \div 12) + 1] \div 2^(e % 12)) % 2

Pow2N(e) == [i \in DigitIdx |-> IF i - 1 = e \div 12 THEN 2^(e % 12) ELSE 0]

\* floor(a / b) for b # 0, by restoring division over the low `bits` bits
\* of a; st = <<quotient, remainder>>
RECURSIVE DivStep(_, _, _, _)
DivStep(a, b, e, st) ==
    IF e < 0 THEN st
    ELSE IF st[2] = ZeroN /\ BitN(a, e) = 0 THEN DivStep(a, b, e - 1, st)
    ELSE LET r2 == AddN(AddN(st[2], st[2]), U(0, BitN(a, e)))
         IN  IF LeqN(b, r2)
             THEN DivStep(a, b, e - 1, <<AddN(st[1], Pow2N(e)), SubN(r2, b)>>)
             ELSE DivStep(a, b, e - 1, <<st[1], r2>>)

DivN(a, b, bits) == DivStep(a, b, bits - 1, <<ZeroN, ZeroN>>)[1]

----------------------------------------------------------------------------
(* Types and constants of the build                                        *)

\* width of size_t (total_size, aux_offset, s8_offset, intel_max_resource_size)
SizeBits == 64

\* width of unsigned (the stride and height fields of struct intel_layout)
UIntBits == 32

\* static const size_t intel_max_resource_size = 1u << 31;
intel_max_resource_size == Pow2N(31)

\* u_align(val, alignment) = (val + alignment - 1) & ~(alignment - 1), for an
\* alignment that is a power of two no larger than one digit
u_align(val, alignment) ==
    LET s == TruncN(AddN(val, U(0, alignment - 1)), SizeBits)
    IN  [s EXCEPT ![1] = s[1] - (s[1] % alignment)]

Formats == {"XGL_FMT_R8G8B8A8_UNORM", "XGL_FMT_D24_UNORM_S8_UINT"}

icd_format_is_ds(format) == format = "XGL_FMT_D24_UNORM_S8_UINT"

icd_format_get_class(format) ==
    CASE format = "XGL_FMT_R8G8B8A8_UNORM" -> "XGL_IMAGE_FORMAT_CLASS_32_BITS"
      [] format = "XGL_FMT_D24_UNORM_S8_UINT" -> "XGL_IMAGE_FORMAT_CLASS_D24S8"
      [] format = "XGL_FMT_S8_UINT" -> "XGL_IMAGE_FORMAT_CLASS_S8"

----------------------------------------------------------------------------
(* Inputs: creation descriptions and what the layout provider returns      *)

\* highest mip level of a description
MaxMip == 1

\* highest file descriptor the window system hands to an image
MaxFd == 3

FloatVals == {0, 1}

\* the colours a caller passes: uniform ones and a mixed one
Colors == {[i \in 1..4 |-> v] : v \in FloatVals} \cup {<<0, 1, 0, 1>>}

Infos ==
    { [imageType |-> "XGL_IMAGE_2D", extent_depth |-> 1,
       mipLevels |-> MaxMip + 1, arraySize |-> 1,
       usage |-> IF icd_format_is_ds(f) THEN "DEPTH_STENCIL" ELSE "COLOR_ATTACHMENT",
       tiling |-> t, format |-> f, samples |-> 1]
      : t \in {"XGL_LINEAR_TILING", "XGL_OPTIMAL_TILING"}, f \in Formats }

\* <<bo_stride, bo_height>> of a primary surface: 1 KiB x 256; a small
\* unaligned linear surface; exactly 2 GiB; 2^20 x 2^12 = 4 GiB; one byte
\* over and two bytes under 2 GiB with a divisor that is no power of two
PrimaryDims ==
    { <<U(0, 1024), U(0, 256)>>, <<U(0, 100), U(0, 3)>>,
      <<U(16, 0), U(8, 0)>>, <<U(256, 0), U(1, 0)>>,
      <<U(0, 3), U(174762, 2731)>>, <<U(0, 3), U(174762, 2730)>> }

\* <<aux, aux_stride, aux_height>>
AuxChoices ==
    { <<"INTEL_LAYOUT_AUX_NONE", ZeroN, ZeroN>>,
      <<"INTEL_LAYOUT_AUX_HIZ", U(0, 128), U(0, 64)>>,
      <<"INTEL_LAYOUT_AUX_MCS", U(0, 128), U(0, 10)>> }

\* what intel_layout_init can leave in *layout for a description: heights
\* and strides are positive, and separate_stencil is reported for
\* depth/stencil formats only (the assert of line 158)
LayoutsOf(info) ==
    { [bo_stride |-> d[1], bo_height |-> d[2],
       aux |-> a[1], aux_stride |-> a[2], aux_height |-> a[3],
       separate_stencil |-> ss]
      : d \in PrimaryDims, a \in AuxChoices,
        ss \in IF icd_format_is_ds(info.format) THEN BOOLEAN ELSE {FALSE} }

S8Layouts ==
    { [bo_stride |-> d[1], bo_height |-> d[2],
       aux |-> "INTEL_LAYOUT_AUX_NONE", aux_stride |-> ZeroN, aux_height |-> ZeroN,
       separate_stencil |-> FALSE]
      : d \in { <<U(0, 256), U(0, 64)>>, <<U(0, 64), U(0, 33)>> } }

----------------------------------------------------------------------------
(* State                                                                   *)

VARIABLES
    enable_wsi_x11,  \* whether the build defines ENABLE_WSI_X11
    img,             \* <<>> or <<the live struct intel_img>>
    img_ret,         \* the caller's handle: "unset" or "img"
    heap,            \* the live allocations, among "base" and "s8"
    call             \* what the last entry point did and returned

vars == <<enable_wsi_x11, img, img_ret, heap, call>>

NoCall ==
    [op |-> "none", ret |-> "none", args |-> <<>>,
     allocs |-> {}, frees |-> [a \in {"base", "s8"} |-> 0],
     ret_writes |-> 0, closes |-> <<>>, mem_frees |-> <<>>, logs |-> <<>>,
     layout_init |-> <<>>, layout_reads |-> <<>>,
     size_out |-> <<>>, data_out |-> <<>>]

Init ==
    /\ enable_wsi_x11 \in BOOLEAN
    /\ img = <<>>
    /\ img_ret = "unset"
    /\ heap = {}
    /\ call = NoCall

----------------------------------------------------------------------------
(* intel_img_create and intel_img_destroy                                  *)

ZeroLayout ==
    [bo_stride |-> ZeroN, bo_height |-> ZeroN, aux |-> "INTEL_LAYOUT_AUX_NONE",
     aux_stride |-> ZeroN, aux_height |-> ZeroN, separate_stencil |-> FALSE]

\* intel_base_create: the new object, every field zero
intel_base_create ==
    [type |-> "0", depth |-> 0, mip_levels |-> 0, array_size |-> 0,
     usage |-> "0", format_class |-> "0", samples |-> 0,
     layout |-> ZeroLayout, s8_layout |-> <<>>,
     total_size |-> ZeroN, aux_offset |-> ZeroN, s8_offset |-> ZeroN,
     x11_prime_fd |-> 0, mem |-> "NULL",
     clear_color |-> [i \in 1..4 |-> 0], clear_depth |-> 0,
     destroy |-> "NULL", get_info |-> "NULL"]

\* lines 124-127
ImgFormatClass(info) ==
    IF info.tiling = "XGL_LINEAR_TILING"
    THEN "XGL_IMAGE_FORMAT_CLASS_LINEAR"
    ELSE icd_format_get_class(info.format)

\* lines 119-129: the fields copied from the description, and the layout
ImgInitFields(im, info, lay) ==
    [im EXCEPT !.type = info.imageType, !.depth = info.extent_depth,
               !.mip_levels = info.mipLevels, !.array_size = info.arraySize,
               !.usage = info.usage, !.format_class = ImgFormatClass(info),
               !.samples = info.samples, !.layout = lay]

\* the test of line 131 written with >= for >
ImgTooBig_Geq(bo_stride, bo_height) ==
    LeqN(DivN(intel_max_resource_size, bo_height, SizeBits), bo_stride)

\* line 131: layout->bo_stride > intel_max_resource_size / layout->bo_height
ImgTooBig(bo_stride, bo_height) ==
    LtN(DivN(intel_max_resource_size, bo_height, SizeBits), bo_stride)

\* line 138: the product of two unsigned, stored in a size_t
PrimarySize(lay) == TruncN(MulN(lay.bo_stride, lay.bo_height), UIntBits)

\* line 141 without the alignment
AuxOffset_Unaligned(total) == total

\* line 141
AuxOffset(total) == u_align(total, 4096)

\* lines 142-143
AuxEnd(aux_offset, lay) ==
    TruncN(AddN(aux_offset, TruncN(MulN(lay.aux_stride, lay.aux_height), UIntBits)),
           SizeBits)

\* line 162
S8Offset(total) == u_align(total, 4096)

\* lines 163-164 with the stencil size assigned rather than added
S8End_NoOffset(s8_offset, s8lay) ==
    TruncN(MulN(s8lay.bo_stride, s8lay.bo_height), UIntBits)

\* lines 163-164
S8End(s8_offset, s8lay) ==
    TruncN(AddN(s8_offset, TruncN(MulN(s8lay.bo_stride, s8lay.bo_height), UIntBits)),
           SizeBits)

\* lines 140-144
ImgPackAux(im) ==
    IF im.layout.aux # "INTEL_LAYOUT_AUX_NONE"
    THEN LET off == AuxOffset(im.total_size)
         IN  [im EXCEPT !.aux_offset = off, !.total_size = AuxEnd(off, im.layout)]
    ELSE im

\* lines 160-164, the stencil layout allocated and initialised
ImgPackS8(im, s8lay) ==
    LET off == S8Offset(im.total_size)
    IN  [im EXCEPT !.s8_layout = <<s8lay>>, !.s8_offset = off,
                   !.total_size = S8End(off, s8lay)]

\* lines 156-157 without the assignment of the stencil format
S8Info_SameFormat(info) == info

\* lines 156-157
S8Info(info) == [info EXCEPT !.format = "XGL_FMT_S8_UINT"]

\* lines 167-172
ImgFinish(im) ==
    [im EXCEPT !.destroy = "img_destroy", !.get_info = "img_get_info",
               !.x11_prime_fd = IF enable_wsi_x11 THEN -1 ELSE @]

\* lines 182-185: whether intel_img_destroy closes the descriptor
DestroyCloses(im) == enable_wsi_x11 /\ im.x11_prime_fd >= 0

\* lines 188-189: whether intel_img_destroy frees the stencil layout
DestroyFreesS8(im) == im.s8_layout # <<>>

\* the fields of the image that intel_img_destroy reads
DestroyReads(im) ==
    [s8_layout |-> im.s8_layout, x11_prime_fd |-> im.x11_prime_fd, mem |-> im.mem]

\* intel_img_destroy(im), its releases added to the record c of the call
intel_img_destroy(im, c) ==
    LET c1 == IF DestroyCloses(im)
              THEN [c EXCEPT !.closes = Append(@, im.x11_prime_fd),
                             !.mem_frees = Append(@, im.mem)]
              ELSE c
        c2 == IF DestroyFreesS8(im) THEN [c1 EXCEPT !.frees["s8"] = @ + 1] ELSE c1
    IN  [c2 EXCEPT !.frees["base"] = @ + 1]

\* the allocations intel_img_destroy(im) releases
DestroyReleases(im) ==
    {"base"} \cup (IF DestroyFreesS8(im) THEN {"s8"} ELSE {})
             \cup (IF DestroyCloses(im) /\ im.mem # "NULL" THEN {"mem"} ELSE {})

\* the scanout hints a description is created with: xglCreateImage passes
\* false; the window system creates its presentable colour images with true
ScanoutsOf(info) ==
    IF enable_wsi_x11 /\ ~icd_format_is_ds(info.format)
                      /\ info.tiling = "XGL_OPTIMAL_TILING"
    THEN BOOLEAN ELSE {FALSE}

CreateArgs(info, scanout, base_ok, lay, s8_ok, s8lay) ==
    [info |-> info, scanout |-> scanout, base_ok |-> base_ok, layout |-> lay,
     s8_ok |-> s8_ok, s8_layout |-> s8lay]

\* lines 112-115: intel_base_create returns NULL
CreateNoBase(info, scanout) ==
    /\ img' = <<>>
    /\ img_ret' = "unset"
    /\ heap' = heap
    /\ call' = [NoCall EXCEPT !.op = "intel_img_create",
                    !.args = CreateArgs(info, scanout, FALSE, ZeroLayout, FALSE, ZeroLayout),
                    !.ret = "XGL_ERROR_OUT_OF_MEMORY"]

\* lines 112-136: the test of line 131 is true
CreateTooBig(info, scanout, lay) ==
    LET im == ImgInitFields(intel_base_create, info, lay)
        c0 == [NoCall EXCEPT !.op = "intel_img_create",
                   !.args = CreateArgs(info, scanout, TRUE, lay, FALSE, ZeroLayout),
                   !.allocs = {"base"},
                   !.layout_init = <<[info |-> info, scanout |-> scanout]>>,
                   !.logs = <<"image too big">>,
                   !.ret = "XGL_ERROR_INVALID_MEMORY_SIZE"]
    IN  /\ img' = <<>>
        /\ img_ret' = "unset"
        /\ heap' = (heap \cup {"base"}) \ DestroyReleases(im)
        /\ call' = intel_img_destroy(im, c0)

\* lines 112-154 returning without the intel_img_destroy of line 152
CreateNoS8_Leak(info, scanout, lay) ==
    /\ img' = <<>>
    /\ img_ret' = "unset"
    /\ heap' = heap \cup {"base"}
    /\ call' = [NoCall EXCEPT !.op = "intel_img_create",
                    !.args = CreateArgs(info, scanout, TRUE, lay, FALSE, ZeroLayout),
                    !.allocs = {"base"},
                    !.layout_init = <<[info |-> info, scanout |-> scanout]>>,
                    !.ret = "XGL_ERROR_OUT_OF_MEMORY"]

\* lines 112-154: the stencil layout cannot be allocated
CreateNoS8(info, scanout, lay) ==
    LET im0 == ImgInitFields(intel_base_create, info, lay)
        im == ImgPackAux([im0 EXCEPT !.total_size = PrimarySize(lay)])
        c0 == [NoCall EXCEPT !.op = "intel_img_create",
                   !.args = CreateArgs(info, scanout, TRUE, lay, FALSE, ZeroLayout),
                   !.allocs = {"base"},
                   !.layout_init = <<[info |-> info, scanout |-> scanout]>>,
                   !.ret = "XGL_ERROR_OUT_OF_MEMORY"]
    IN  /\ img' = <<>>
        /\ img_ret' = "unset"
        /\ heap' = (heap \cup {"base"}) \ DestroyReleases(im)
        /\ call' = intel_img_destroy(im, c0)

\* lines 112-176 with a separate stencil
CreateWithS8(info, scanout, lay, s8lay) ==
    LET im0 == ImgInitFields(intel_base_create, info, lay)
        im1 == ImgPackAux([im0 EXCEPT !.total_size = PrimarySize(lay)])
        im == ImgFinish(ImgPackS8(im1, s8lay))
    IN  /\ img' = <<im>>
        /\ img_ret' = "img"
        /\ heap' = heap \cup {"base", "s8"}
        /\ call' = [NoCall EXCEPT !.op = "intel_img_create",
                        !.args = CreateArgs(info, scanout, TRUE, lay, TRUE, s8lay),
                        !.allocs = {"base", "s8"},
                        !.layout_init = <<[info |-> info, scanout |-> scanout],
                                          [info |-> S8Info(info), scanout |-> scanout]>>,
                        !.ret_writes = 1,
                        !.ret = "XGL_SUCCESS"]

\* lines 112-176 without a separate stencil
CreatePlain(info, scanout, lay) ==
    LET im0 == ImgInitFields(intel_base_create, info, lay)
        im == ImgFinish(ImgPackAux([im0 EXCEPT !.total_size = PrimarySize(lay)]))
    IN  /\ img' = <<im>>
        /\ img_ret' = "img"
        /\ heap' = heap \cup {"base"}
        /\ call' = [NoCall EXCEPT !.op = "intel_img_create",
                        !.args = CreateArgs(info, scanout, TRUE, lay, FALSE, ZeroLayout),
                        !.allocs = {"base"},
                        !.layout_init = <<[info |-> info, scanout |-> scanout]>>,
                        !.ret_writes = 1,
                        !.ret = "XGL_SUCCESS"]

\* lines 131-176, once intel_base_create and intel_layout_init have returned;
\* too_big is the value of the test of line 131
CreateWithBase(info, scanout, lay, too_big) ==
    IF too_big THEN CreateTooBig(info, scanout, lay)
    ELSE IF lay.separate_stencil
    THEN \/ CreateNoS8(info, scanout, lay)
         \/ \E s8lay \in S8Layouts : CreateWithS8(info, scanout, lay, s8lay)
    ELSE CreatePlain(info, scanout, lay)

\* intel_img_create(dev, info, scanout, img_ret), for a caller that holds no
\* image; xglCreateImage is the call with scanout = false.  The division of
\* line 131 is evaluated once for each stride and height.
IntelImgCreate ==
    /\ img = <<>>
    /\ \/ \E info \in Infos : \E scanout \in ScanoutsOf(info) :
             CreateNoBase(info, scanout)
       \/ \E d \in PrimaryDims : \E too_big \in {ImgTooBig(d[1], d[2])} :
             \E info \in Infos :
                \E scanout \in ScanoutsOf(info) :
                   \E lay \in {l \in LayoutsOf(info) : <<l.bo_stride, l.bo_height>> = d} :
                      CreateWithBase(info, scanout, lay, too_big)
    /\ UNCHANGED enable_wsi_x11

\* obj.destroy of a live image: img_destroy, lines 44-49 and 179-192
ImgDestroy ==
    /\ img # <<>>
    /\ call' = intel_img_destroy(img[1],
                   [NoCall EXCEPT !.op = "intel_img_destroy",
                       !.args = DestroyReads(img[1]), !.ret = "void"])
    /\ heap' = heap \ DestroyReleases(img[1])
    /\ img' = <<>>
    /\ img_ret' = "unset"
    /\ UNCHANGED enable_wsi_x11

----------------------------------------------------------------------------
(* Queries                                                                 *)

InfoTypes ==
    {"XGL_INFO_TYPE_MEMORY_REQUIREMENTS", "XGL_INFO_TYPE_IMAGE_MEMORY_REQUIREMENTS",
     "XGL_INFO_TYPE_BUFFER_MEMORY_REQUIREMENTS", "XGL_INFO_TYPE_ALLOCATION_COUNT"}

\* lines 67-71 without the test of the format class
MemType_AlwaysImage(im) == "XGL_MEMORY_TYPE_IMAGE"

\* lines 67-71
MemType(im) ==
    IF im.format_class = "XGL_IMAGE_FORMAT_CLASS_LINEAR"
    THEN "XGL_MEMORY_TYPE_BUFFER"
    ELSE "XGL_MEMORY_TYPE_IMAGE"

\* lines 65-71
MemReq(im) ==
    [size |-> im.total_size, alignment |-> 4096, memType |-> MemType(im)]

\* lines 81-83
ImgReq(im) ==
    [usage |-> im.usage, formatClass |-> im.format_class, samples |-> im.samples]

\* line 93
BufReq(im) == [usage |-> im.usage]

\* intel_base_get_info, which img_get_info falls back to: it is handed the
\* arguments and its result is returned
intel_base_get_info(c, type, has_data) ==
    [c EXCEPT !.ret = "intel_base_get_info"]

\* lines 51-102: img_get_info(base, type, size, data), has_data telling
\* whether data is non-null; the record of the call
img_get_info(im, type, has_data) ==
    LET c == [NoCall EXCEPT !.op = "img_get_info",
                  !.args = [type |-> type, has_data |-> has_data],
                  !.ret = "XGL_SUCCESS"]
        out(sz, d) == [c EXCEPT !.size_out = <<sz>>,
                                !.data_out = IF has_data THEN <<d>> ELSE <<>>]
    IN  CASE type = "XGL_INFO_TYPE_MEMORY_REQUIREMENTS" ->
                out("sizeof(XGL_MEMORY_REQUIREMENTS)", MemReq(im))
          [] type = "XGL_INFO_TYPE_IMAGE_MEMORY_REQUIREMENTS" ->
                out("sizeof(XGL_IMAGE_MEMORY_REQUIREMENTS)", ImgReq(im))
          [] type = "XGL_INFO_TYPE_BUFFER_MEMORY_REQUIREMENTS" ->
                out("sizeof(XGL_BUFFER_MEMORY_REQUIREMENTS)", BufReq(im))
          [] OTHER -> intel_base_get_info(c, type, has_data)

\* obj.base.get_info of a live image
ImgGetInfo ==
    /\ img # <<>>
    /\ \E type \in InfoTypes, has_data \in BOOLEAN :
          call' = img_get_info(img[1], type, has_data)
    /\ UNCHANGED <<enable_wsi_x11, img, img_ret, heap>>

\* the layout provider's read-only functions, as terms over their arguments
intel_layout_get_slice_pos(lay, level, slice) ==
    <<"intel_layout_get_slice_pos", lay, level, slice>>

intel_layout_pos_to_mem(lay, pos) == <<"intel_layout_pos_to_mem", lay, pos>>

intel_layout_mem_to_linear(lay, mem) == <<"intel_layout_mem_to_linear", lay, mem>>

intel_layout_get_slice_size(lay, level) ==
    <<"intel_layout_get_slice_size", lay, level>>

intel_layout_get_slice_stride(lay, level) ==
    <<"intel_layout_get_slice_stride", lay, level>>

SubresourceInfoTypes == {"XGL_INFO_TYPE_SUBRESOURCE_LAYOUT", "XGL_INFO_TYPE_OTHER"}

\* lines 238-243
SubresourceLayout(im, level, slice) ==
    LET pos == intel_layout_get_slice_pos(im.layout, level, slice)
        mem == intel_layout_pos_to_mem(im.layout, pos)
    IN  [offset |-> intel_layout_mem_to_linear(im.layout, mem),
         size |-> intel_layout_get_slice_size(im.layout, level),
         rowPitch |-> im.layout.bo_stride,
         depthPitch |-> intel_layout_get_slice_stride(im.layout, level)]

\* lines 214-252 with *pDataSize written before the switch
xglGetImageSubresourceInfo_SizeFirst(im, level, slice, infoType, has_data) ==
    LET c == [NoCall EXCEPT !.op = "xglGetImageSubresourceInfo",
                  !.args = [mipLevel |-> level, arraySlice |-> slice,
                            infoType |-> infoType, has_data |-> has_data],
                  !.size_out = <<"sizeof(XGL_SUBRESOURCE_LAYOUT)">>]
    IN  IF infoType = "XGL_INFO_TYPE_SUBRESOURCE_LAYOUT"
        THEN [c EXCEPT !.ret = "XGL_SUCCESS",
                 !.layout_reads = <<"intel_layout_get_slice_pos",
                                    "intel_layout_pos_to_mem">>]
        ELSE [c EXCEPT !.ret = "XGL_ERROR_INVALID_VALUE"]

\* lines 214-252: the record of the call
xglGetImageSubresourceInfo(im, level, slice, infoType, has_data) ==
    LET c == [NoCall EXCEPT !.op = "xglGetImageSubresourceInfo",
                  !.args = [mipLevel |-> level, arraySlice |-> slice,
                            infoType |-> infoType, has_data |-> has_data]]
    IN  IF infoType = "XGL_INFO_TYPE_SUBRESOURCE_LAYOUT"
        THEN IF has_data
             THEN [c EXCEPT !.ret = "XGL_SUCCESS",
                      !.layout_reads = <<"intel_layout_get_slice_pos",
                                         "intel_layout_pos_to_mem",
                                         "intel_layout_mem_to_linear",
                                         "intel_layout_get_slice_size",
                                         "intel_layout_get_slice_stride">>,
                      !.size_out = <<"sizeof(XGL_SUBRESOURCE_LAYOUT)">>,
                      !.data_out = <<SubresourceLayout(im, level, slice)>>]
             ELSE [c EXCEPT !.ret = "XGL_SUCCESS",
                      !.layout_reads = <<"intel_layout_get_slice_pos",
                                         "intel_layout_pos_to_mem">>,
                      !.size_out = <<"sizeof(XGL_SUBRESOURCE_LAYOUT)">>]
        ELSE [c EXCEPT !.ret = "XGL_ERROR_INVALID_VALUE"]

GetImageSubresourceInfo ==
    /\ img # <<>>
    /\ \E level \in 0..MaxMip, infoType \in SubresourceInfoTypes, has_data \in BOOLEAN :
          call' = xglGetImageSubresourceInfo(img[1], level, 0, infoType, has_data)
    /\ UNCHANGED <<enable_wsi_x11, img, img_ret, heap>>

\* lines 194-201
OpenPeerImage ==
    /\ call' = [NoCall EXCEPT !.op = "xglOpenPeerImage", !.ret = "XGL_ERROR_UNAVAILABLE"]
    /\ UNCHANGED <<enable_wsi_x11, img, img_ret, heap>>

----------------------------------------------------------------------------
(* Fast-clear setters                                                      *)

\* line 260: memcpy(img->clear_color, &color, sizeof(float) * 4).  color is
\* a pointer parameter, so the sixteen bytes copied are those at the address
\* of the parameter: the pointer itself and what lies next to it, param_mem,
\* and not the four floats color points to.
FastClearColorStored(color, param_mem) == param_mem

\* lines 254-263
SetFastClearColor ==
    /\ img # <<>>
    /\ \E color \in Colors, param_mem \in Colors :
          /\ img' = <<[img[1] EXCEPT !.clear_color = FastClearColorStored(color, param_mem)]>>
          /\ call' = [NoCall EXCEPT !.op = "xglSetFastClearColor",
                          !.args = [color |-> color], !.ret = "XGL_SUCCESS"]
    /\ UNCHANGED <<enable_wsi_x11, img_ret, heap>>

\* lines 265-274 with the depth stored over the first colour component
SetFastClearDepth_ClobbersColor ==
    /\ img # <<>>
    /\ \E depth \in FloatVals :
          /\ img' = <<[img[1] EXCEPT !.clear_color[1] = depth]>>
          /\ call' = [NoCall EXCEPT !.op = "xglSetFastClearDepth",
                          !.args = [depth |-> depth], !.ret = "XGL_SUCCESS"]
    /\ UNCHANGED <<enable_wsi_x11, img_ret, heap>>

\* lines 265-274
SetFastClearDepth ==
    /\ img # <<>>
    /\ \E depth \in FloatVals :
          /\ img' = <<[img[1] EXCEPT !.clear_depth = depth]>>
          /\ call' = [NoCall EXCEPT !.op = "xglSetFastClearDepth",
                          !.args = [depth |-> depth], !.ret = "XGL_SUCCESS"]
    /\ UNCHANGED <<enable_wsi_x11, img_ret, heap>>

----------------------------------------------------------------------------
(* The window system's hand-off of an image                                *)

\* the X11 window system exports the memory bound to a presentable image and
\* keeps the descriptor in x11_prime_fd
X11Share ==
    /\ enable_wsi_x11
    /\ img # <<>>
    /\ img[1].x11_prime_fd < 0
    /\ \E fd \in 3..MaxFd :
          img' = <<[img[1] EXCEPT !.x11_prime_fd = fd, !.mem = "mem"]>>
    /\ heap' = heap \cup {"mem"}
    /\ call' = [NoCall EXCEPT !.op = "x11_share", !.ret = "XGL_SUCCESS"]
    /\ UNCHANGED <<enable_wsi_x11, img_ret>>

----------------------------------------------------------------------------

Next ==
    \/ IntelImgCreate
    \/ ImgDestroy
    \/ ImgGetInfo
    \/ GetImageSubresourceInfo
    \/ OpenPeerImage
    \/ SetFastClearColor
    \/ SetFastClearDepth
    \/ X11Share

Spec == Init /\ [][Next]_vars

----------------------------------------------------------------------------
(* Properties                                                              *)

\* the least multiple of 4096 that is no less than v
AlignUp4096(v) == IF v[1] = 0 THEN v ELSE AddN([v EXCEPT ![1] = 0], U(1, 0))

AfterCreate == call.op = "intel_img_create"

CreateSucceeded == AfterCreate /\ call.ret = "XGL_SUCCESS"

HasAux(im) == im.layout.aux # "INTEL_LAYOUT_AUX_NONE"

\* the sizes and ends of the regions of an image, as exact products and sums
PrimaryBytes(lay) == MulN(lay.bo_stride, lay.bo_height)
AuxBytes(lay) == MulN(lay.aux_stride, lay.aux_height)
EndAfterAux(lay) ==
    IF lay.aux # "INTEL_LAYOUT_AUX_NONE"
    THEN AddN(AlignUp4096(PrimaryBytes(lay)), AuxBytes(lay))
    ELSE PrimaryBytes(lay)
EndAfterS8(im) ==
    IF im.layout.separate_stencil
    THEN AddN(AlignUp4096(EndAfterAux(im.layout)), PrimaryBytes(im.s8_layout[1]))
    ELSE EndAfterAux(im.layout)

\* C1: after a successful intel_img_create, total_size is the size built in
\* the order primary, aux, stencil: P = bo_stride * bo_height; with an aux,
\* aux_offset = align_up(P, 4096) and the size becomes aux_offset +
\* aux_stride * aux_height; with a separate stencil, s8_offset =
\* align_up(that size, 4096) and total_size = s8_offset + the stencil
\* surface's bo_stride * bo_height; with neither, total_size = P.
C1_TotalSizeInOrder ==
    CreateSucceeded =>
        LET im == img[1]
        IN  /\ im.total_size = EndAfterS8(im)
            /\ HasAux(im) => im.aux_offset = AlignUp4096(PrimaryBytes(im.layout))
            /\ im.layout.separate_stencil =>
                  im.s8_offset = AlignUp4096(EndAfterAux(im.layout))
            /\ (~HasAux(im) /\ ~im.layout.separate_stencil) =>
                  im.total_size = PrimaryBytes(im.layout)

\* an image with an aux and a separate stencil whose primary and aux
\* regions both end off a 4096-byte boundary
C1_Witness ==
    /\ CreateSucceeded
    /\ img[1].layout.bo_stride = U(0, 100)
    /\ img[1].layout.aux = "INTEL_LAYOUT_AUX_MCS"
    /\ img[1].layout.separate_stencil

\* C2: after a successful intel_img_create the present regions are pairwise
\* disjoint and start on 4096-byte boundaries: aux_offset and s8_offset are
\* multiples of 4096, each is no less than the end of the region before it,
\* and total_size is no less than the end of every present region.
C2_RegionsDisjointAligned ==
    CreateSucceeded =>
        LET im == img[1]
            P == PrimaryBytes(im.layout)
            auxEnd == AddN(im.aux_offset, AuxBytes(im.layout))
            s8End == AddN(im.s8_offset, PrimaryBytes(im.s8_layout[1]))
        IN  /\ LeqN(P, im.total_size)
            /\ HasAux(im) =>
                  /\ im.aux_offset[1] % 4096 = 0
                  /\ LeqN(P, im.aux_offset)
                  /\ LeqN(auxEnd, im.total_size)
            /\ im.layout.separate_stencil =>
                  /\ im.s8_offset[1] % 4096 = 0
                  /\ LeqN(P, im.s8_offset)
                  /\ HasAux(im) => LeqN(auxEnd, im.s8_offset)
                  /\ LeqN(s8End, im.total_size)

\* an image with all three regions, the primary one of 300 bytes
C2_Witness ==
    /\ CreateSucceeded
    /\ img[1].layout.bo_stride = U(0, 100)
    /\ img[1].layout.aux = "INTEL_LAYOUT_AUX_HIZ"
    /\ img[1].s8_layout # <<>>

\* whether the primary surface of the last intel_img_create, as an exact
\* product, is more than 2^31 bytes
PrimaryOver2G ==
    LtN(Pow2N(31), PrimaryBytes(call.args.layout))

\* C3: for every primary layout the provider returns, intel_img_create
\* returns XGL_ERROR_INVALID_MEMORY_SIZE, after logging an error and without
\* writing *img_ret, whenever bo_stride > 2^31 / bo_height; every successful
\* creation has bo_stride * bo_height <= 2^31; the test by division is the
\* same as the product being more than 2^31.
C3_CapacityCheck ==
    (AfterCreate /\ call.args.base_ok) =>
        /\ ImgTooBig(call.args.layout.bo_stride, call.args.layout.bo_height)
              <=> PrimaryOver2G
        /\ (call.ret = "XGL_ERROR_INVALID_MEMORY_SIZE") <=> PrimaryOver2G
        /\ PrimaryOver2G =>
              /\ call.logs = <<"image too big">>
              /\ call.ret_writes = 0
              /\ img_ret = "unset"
        /\ call.ret = "XGL_SUCCESS" => ~PrimaryOver2G

\* a creation refused for a surface of 3 x 715827883 = 2^31 + 1 bytes
C3_Witness ==
    /\ AfterCreate
    /\ call.ret = "XGL_ERROR_INVALID_MEMORY_SIZE"
    /\ call.args.layout.bo_height = U(174762, 2731)

\* C4: intel_img_create is atomic.  On its failure paths (no base object:
\* OUT_OF_MEMORY; too big: INVALID_MEMORY_SIZE; no stencil layout:
\* OUT_OF_MEMORY) *img_ret is not written and every allocation the call made
\* has been released exactly once; on success *img_ret is written once and
\* nothing has been released.
C4_CreateAtomic ==
    AfterCreate =>
        /\ call.ret \in {"XGL_SUCCESS", "XGL_ERROR_OUT_OF_MEMORY",
                         "XGL_ERROR_INVALID_MEMORY_SIZE"}
        /\ ~call.args.base_ok =>
              call.ret = "XGL_ERROR_OUT_OF_MEMORY" /\ call.allocs = {}
        /\ call.ret # "XGL_SUCCESS" =>
              /\ call.ret_writes = 0
              /\ img_ret = "unset"
              /\ img = <<>>
              /\ \A a \in {"base", "s8"} :
                    /\ call.frees[a] = (IF a \in call.allocs THEN 1 ELSE 0)
                    /\ a \notin heap
        /\ call.ret = "XGL_SUCCESS" =>
              /\ call.ret_writes = 1
              /\ img_ret = "img"
              /\ \A a \in {"base", "s8"} : call.frees[a] = 0
              /\ call.allocs \subseteq heap
              /\ call.closes = <<>> /\ call.mem_frees = <<>>

\* a creation that failed for want of the stencil layout, after the base
\* object was allocated
C4_Witness ==
    /\ AfterCreate
    /\ call.ret = "XGL_ERROR_OUT_OF_MEMORY"
    /\ call.args.base_ok
    /\ call.args.layout.separate_stencil
    /\ call.frees["base"] = 1

AfterDestroy == call.op = "intel_img_destroy"

\* C5: intel_img_destroy releases only what the image acquired: it frees the
\* stencil layout exactly when one was allocated, and closes a descriptor and
\* frees bound memory exactly when the window system shared the image; where
\* intel_img_create destroys its own half-built image nothing was shared, so
\* no descriptor is closed and no memory object is freed.
C5_DestroyReleasesOnlyAcquired ==
    /\ AfterDestroy =>
          /\ call.frees["s8"] = (IF call.args.s8_layout # <<>> THEN 1 ELSE 0)
          /\ call.closes # <<>> <=> call.args.mem = "mem"
          /\ call.mem_frees # <<>> <=> call.args.mem = "mem"
    /\ AfterCreate => call.closes = <<>> /\ call.mem_frees = <<>>

\* C6: xglSetFastClearColor returns XGL_SUCCESS and leaves clear_color[i]
\* equal to the caller's color[i] for the four components;
\* xglSetFastClearDepth returns XGL_SUCCESS and leaves clear_depth equal to
\* depth; the last call decides the stored value.
C6_SettersStoreArguments ==
    /\ call.op = "xglSetFastClearColor" =>
          /\ call.ret = "XGL_SUCCESS"
          /\ \A i \in 1..4 : img[1].clear_color[i] = call.args.color[i]
    /\ call.op = "xglSetFastClearDepth" =>
          /\ call.ret = "XGL_SUCCESS"
          /\ img[1].clear_depth = call.args.depth

AfterMemReq ==
    /\ call.op = "img_get_info"
    /\ call.args.type = "XGL_INFO_TYPE_MEMORY_REQUIREMENTS"

\* C7: img_get_info with XGL_INFO_TYPE_MEMORY_REQUIREMENTS returns success
\* and writes the same required size whether or not a buffer is given; with
\* no buffer it writes nothing else; with one it fills size = total_size,
\* alignment = 4096 and memType = BUFFER exactly when format_class is
\* LINEAR, IMAGE otherwise; format_class is LINEAR exactly when the image
\* was created with linear tiling or its format's class is linear.
C7_MemoryRequirements ==
    /\ AfterMemReq =>
          /\ call.ret = "XGL_SUCCESS"
          /\ call.size_out = <<"sizeof(XGL_MEMORY_REQUIREMENTS)">>
          /\ ~call.args.has_data => call.data_out = <<>>
          /\ call.args.has_data =>
                /\ Len(call.data_out) = 1
                /\ call.data_out[1].size = img[1].total_size
                /\ call.data_out[1].alignment = 4096
                /\ call.data_out[1].memType =
                      (IF img[1].format_class = "XGL_IMAGE_FORMAT_CLASS_LINEAR"
                       THEN "XGL_MEMORY_TYPE_BUFFER" ELSE "XGL_MEMORY_TYPE_IMAGE")
    /\ CreateSucceeded =>
          (img[1].format_class = "XGL_IMAGE_FORMAT_CLASS_LINEAR"
              <=> \/ call.args.info.tiling = "XGL_LINEAR_TILING"
                  \/ icd_format_get_class(call.args.info.format)
                        = "XGL_IMAGE_FORMAT_CLASS_LINEAR")

\* the requirements of a linear image read into a buffer
C7_Witness ==
    /\ AfterMemReq
    /\ call.args.has_data
    /\ img[1].format_class = "XGL_IMAGE_FORMAT_CLASS_LINEAR"
    /\ img[1].layout.separate_stencil

Queries == {"img_get_info", "xglGetImageSubresourceInfo", "xglOpenPeerImage"}

\* C8: on a created image clear_color and clear_depth are changed only by
\* xglSetFastClearColor and xglSetFastClearDepth, total_size, aux_offset,
\* s8_offset and the layouts are changed by no operation, and every query
\* leaves every field of the image as it was.
C8_Frame ==
    [][(img # <<>> /\ img' # <<>>) =>
          /\ call'.op \in Queries => img' = img
          /\ img'[1].clear_color # img[1].clear_color =>
                call'.op = "xglSetFastClearColor"
          /\ img'[1].clear_depth # img[1].clear_depth =>
                call'.op = "xglSetFastClearDepth"
          /\ img'[1].total_size = img[1].total_size
          /\ img'[1].aux_offset = img[1].aux_offset
          /\ img'[1].s8_offset = img[1].s8_offset
          /\ img'[1].layout = img[1].layout
          /\ img'[1].s8_layout = img[1].s8_layout]_vars

\* a requirement query answered on an image whose clear colour and clear
\* depth have been set
C8_Witness ==
    /\ call.op = "img_get_info"
    /\ call.args.type = "XGL_INFO_TYPE_BUFFER_MEMORY_REQUIREMENTS"
    /\ img[1].clear_color = <<0, 1, 0, 1>>
    /\ img[1].clear_depth = 1

\* C9: after a successful intel_img_create a stencil layout is present
\* exactly when the primary layout reports separate_stencil; it is then the
\* layout of the description with the format replaced by the 8-bit stencil
\* format, its offset is aligned up from the size after the aux step, and
\* total_size is more than bo_stride * bo_height; otherwise s8_layout is
\* null, and intel_img_destroy frees a stencil layout only if there is one.
C9_StencilLayout ==
    /\ CreateSucceeded =>
          LET im == img[1]
          IN  /\ im.s8_layout # <<>> <=> call.args.layout.separate_stencil
              /\ im.layout = call.args.layout
              /\ im.layout.separate_stencil =>
                    /\ Len(call.layout_init) = 2
                    /\ call.layout_init[2].info =
                          [call.args.info EXCEPT !.format = "XGL_FMT_S8_UINT"]
                    /\ call.layout_init[2].scanout = call.args.scanout
                    /\ im.s8_layout = <<call.args.s8_layout>>
                    /\ im.s8_offset = AlignUp4096(EndAfterAux(im.layout))
                    /\ LtN(PrimaryBytes(im.layout), im.total_size)
                    /\ "s8" \in heap
              /\ ~im.layout.separate_stencil =>
                    /\ Len(call.layout_init) = 1
                    /\ "s8" \notin heap
    /\ AfterDestroy =>
          /\ call.frees["s8"] = (IF call.args.s8_layout # <<>> THEN 1 ELSE 0)
          /\ "s8" \notin heap

\* a depth/stencil image created with a separate stencil and an aux
C9_Witness ==
    /\ CreateSucceeded
    /\ img[1].s8_layout # <<>>
    /\ HasAux(img[1])

AfterSubresource == call.op = "xglGetImageSubresourceInfo"

\* C10: xglGetImageSubresourceInfo with a selector other than
\* XGL_INFO_TYPE_SUBRESOURCE_LAYOUT returns XGL_ERROR_INVALID_VALUE, writes
\* neither *pDataSize nor the buffer and does not consult the layout
\* provider; with that selector it returns XGL_SUCCESS, always writes the
\* size, and writes the buffer (offset, size, rowPitch = bo_stride,
\* depthPitch = the mip's slice stride) only when the buffer is non-null.
C10_SubresourceInfo ==
    AfterSubresource =>
        IF call.args.infoType # "XGL_INFO_TYPE_SUBRESOURCE_LAYOUT"
        THEN /\ call.ret = "XGL_ERROR_INVALID_VALUE"
             /\ call.size_out = <<>>
             /\ call.data_out = <<>>
             /\ call.layout_reads = <<>>
        ELSE /\ call.ret = "XGL_SUCCESS"
             /\ call.size_out = <<"sizeof(XGL_SUBRESOURCE_LAYOUT)">>
             /\ call.data_out # <<>> <=> call.args.has_data
             /\ call.args.has_data =>
                   LET lay == img[1].layout
                       level == call.args.mipLevel
                       d == call.data_out[1]
                       pos == intel_layout_get_slice_pos(lay, level, call.args.arraySlice)
                   IN  /\ d.rowPitch = lay.bo_stride
                       /\ d.depthPitch = intel_layout_get_slice_stride(lay, level)
                       /\ d.size = intel_layout_get_slice_size(lay, level)
                       /\ d.offset = intel_layout_mem_to_linear(lay,
                                         intel_layout_pos_to_mem(lay, pos))

\* an unknown selector refused, with a buffer passed
C10_Witness ==
    /\ AfterSubresource
    /\ call.args.infoType = "XGL_INFO_TYPE_OTHER"
    /\ call.args.has_data
    /\ call.ret = "XGL_ERROR_INVALID_VALUE"

====
